---------------------------- MODULE Spec2Model ----------------------------
(***************************************************************************)
(* A model of clap-help's printer (src/src/printer.rs):                    *)
(*   - Printer: the template set (template_keys + templates), the width    *)
(*     configuration and the two rendering modes of print_help;            *)
(*   - StylePreset: all_names / from_name / name;                          *)
(*   - Printer::make_expander: the variable model built from a command.    *)
(* Text is a sequence of characters, each character a one-character        *)
(* string; the back-tick, which a TLA+ string cannot hold, is the          *)
(* character named BT.                                                     *)
(***************************************************************************)
EXTENDS Integers, Sequences, FiniteSets, TLC

VARIABLES
    template_keys,  \* Printer.template_keys: Vec<&str>
    templates,      \* Printer.templates: HashMap<&str, &str> (NoTemplate = no entry)
    full_width,     \* Printer.full_width
    max_width,      \* Printer.max_width: Option<usize> (None or a number)
    term,           \* the terminal's current width, what terminal_size() returns
    keymuts,        \* number of mutations made through template_keys_mut()
    printed,        \* TRUE iff the last operation was print_help
    out,            \* the blocks the last operation wrote to standard output
    events,         \* the terminal queries, expansions and prints of the last operation
    name_in,        \* StylePreset::from_name: the argument of the last call
    name_out,       \* StylePreset::from_name: the result of the last call
    cmd,            \* the clap Command given to Printer::new: its arguments
    expander        \* Printer.expander, as built by make_expander

printer_vars == <<template_keys, templates, full_width, max_width, term,
                  keymuts, printed, out, events>>
preset_vars == <<name_in, name_out>>
expander_vars == <<cmd, expander>>
vars == <<printer_vars, preset_vars, expander_vars>>

\* Option<T>: None, or Some(x)
None == <<>>
Some(x) == <<x>>

Max(a, b) == IF a >= b THEN a ELSE b
Min(a, b) == IF a <= b THEN a ELSE b

(***************************************************************************)
(* The template set                                                        *)
(***************************************************************************)

\* pub static TEMPLATES: the default order of the section keys
TEMPLATES ==
    <<"title", "author", "description", "introduction", "usage",
      "positionals", "options", "subcommands", "examples">>

NoTemplate == "NoTemplate"

\* Printer::new: the eight default mapping entries ("introduction" has none)
DefaultTemplates ==
    [k \in {TEMPLATES[i] : i \in DOMAIN TEMPLATES} |->
        CASE k = "title" -> "TEMPLATE_TITLE"
          [] k = "author" -> "TEMPLATE_AUTHOR"
          [] k = "usage" -> "TEMPLATE_USAGE"
          [] k = "positionals" -> "TEMPLATE_POSITIONALS"
          [] k = "options" -> "TEMPLATE_OPTIONS"
          [] k = "description" -> "TEMPLATE_DESCRIPTION"
          [] k = "subcommands" -> "TEMPLATE_SUBCOMMANDS"
          [] k = "examples" -> "TEMPLATE_EXAMPLES"
          [] OTHER -> NoTemplate]

\* The keys and templates the caller's with / set_template / without calls use
CallerKeys == {"introduction", "examples"}
CallerTemplates == {"NARROW", "WIDE", "LONG"}

\* The key lists a caller assigns through template_keys_mut()
CallerKeyLists ==
    {<<"introduction", "examples">>, <<"examples", "introduction", "examples">>}

\* The widths terminal_size() returns, and the widths given to with_max_width
TermWidths == {100, 50}
MaxWidths == {40, 150}

\* at most MaxKeyMuts mutations are made through template_keys_mut()
MaxKeyMuts == 1

(***************************************************************************)
(* Expansion and layout (termimad): a template expands to a paragraph,     *)
(* given as the lengths of its words; FmtText::from_text wraps it at the   *)
(* given width and content_width is the longest wrapped line.              *)
(***************************************************************************)

\* self.expander.expand(&template), for the expander of one fixed command
Expand(template) ==
    CASE template = "TEMPLATE_TITLE" -> <<4, 5>>
      [] template = "TEMPLATE_AUTHOR" -> <<2, 6>>
      [] template = "TEMPLATE_USAGE" -> <<6, 4, 9>>
      [] template = "TEMPLATE_POSITIONALS" -> <<>>
      [] template = "TEMPLATE_OPTIONS" -> <<18>>
      [] template = "TEMPLATE_DESCRIPTION" -> <<5, 4, 8>>
      [] template = "TEMPLATE_SUBCOMMANDS" -> <<12>>
      [] template = "TEMPLATE_EXAMPLES" -> <<9, 8>>
      [] template = "NARROW" -> <<9, 10>>
      [] template = "WIDE" -> <<20, 19, 19>>
      [] template = "LONG" -> <<20, 19, 19, 20, 19, 18>>

RECURSIVE WrapWidth(_, _, _, _)
\* the longest line of `words` wrapped greedily at width w; cur is the length
\* of the line being filled, best the longest line closed so far
WrapWidth(words, w, cur, best) ==
    IF words = <<>> THEN Max(best, cur)
    ELSE LET h == Head(words) IN
         IF cur = 0
         THEN IF h <= w
              THEN WrapWidth(Tail(words), w, h, best)
              ELSE WrapWidth(<<h - w>> \o Tail(words), w, 0, Max(best, w))
         ELSE IF cur + 1 + h <= w
              THEN WrapWidth(Tail(words), w, cur + 1 + h, best)
              ELSE WrapWidth(words, w, 0, Max(best, cur))

\* FmtText::from_text(skin, text, Some(width)).content_width()
ContentWidth(text, width) == WrapWidth(text, width, 0, 0)

\* the width of the text when nothing wraps it
NaturalWidth(text) == ContentWidth(text, 1000)

(***************************************************************************)
(* Printer: rendering                                                      *)
(***************************************************************************)

Event(ev, key, w) == [ev |-> ev, key |-> key, w |-> w]

\* what a print_help call produces: the blocks written to standard output
\* and the trace of its terminal queries, expansions and prints
Nothing == [out |-> <<>>, events |-> <<>>]

\* mutant: the caller's max_width is not applied to the measuring width
MeasureWidth_IgnoreMax(t, mw) == t

\* let mut width = terminal_size().0; if let Some(max_width) = ... { width.min(max_width) }
MeasureWidth(t, mw) == IF mw # None THEN Min(t, mw[1]) ELSE t

RECURSIVE MeasureTexts(_, _, _)
\* template_keys.iter().filter_map(|key| templates.get(key)).map(expand, from_text)
MeasureTexts(keys, tmpl, width) ==
    IF keys = <<>> THEN <<>>
    ELSE IF tmpl[Head(keys)] # NoTemplate
         THEN <<[key |-> Head(keys), template |-> tmpl[Head(keys)], width |-> width,
                 cw |-> ContentWidth(Expand(tmpl[Head(keys)]), width)]>>
              \o MeasureTexts(Tail(keys), tmpl, width)
         ELSE MeasureTexts(Tail(keys), tmpl, width)

\* mutant: the fold keeps the last text's content width instead of the maximum
UnifiedWidth_Last(texts) ==
    IF texts = <<>> THEN 0 ELSE texts[Len(texts)].cw

RECURSIVE UnifiedWidth(_)
\* texts.iter().fold(0, |cw, text| cw.max(text.content_width()))
UnifiedWidth(texts) ==
    IF texts = <<>> THEN 0
    ELSE Max(UnifiedWidth(SubSeq(texts, 1, Len(texts) - 1)), texts[Len(texts)].cw)

\* mutant: the blocks are taken in the order of the default keys, not in the
\* order of template_keys
PrintHelpContentWidth_DefaultOrder(keys, tmpl, t, mw) ==
    LET width == MeasureWidth(t, mw)
        texts == MeasureTexts(TEMPLATES, tmpl, width)
        content_width == UnifiedWidth(texts)
    IN [out |-> [i \in 1..Len(texts) |-> [texts[i] EXCEPT !.width = content_width]],
        events |-> <<Event("terminal_size", "", t)>>
                   \o [i \in 1..Len(texts) |-> Event("expand", texts[i].key, width)]
                   \o [i \in 1..Len(texts) |-> Event("print", texts[i].key, content_width)]]

\* mutant: the terminal is queried again for every text that is measured
PrintHelpContentWidth_QueryPerText(keys, tmpl, t, mw) ==
    LET width == MeasureWidth(t, mw)
        texts == MeasureTexts(keys, tmpl, width)
        content_width == UnifiedWidth(texts)
    IN [out |-> [i \in 1..Len(texts) |-> [texts[i] EXCEPT !.width = content_width]],
        events |-> [i \in 1..Len(texts) |-> Event("terminal_size", "", t)]
                   \o [i \in 1..Len(texts) |-> Event("expand", texts[i].key, width)]
                   \o [i \in 1..Len(texts) |-> Event("print", texts[i].key, content_width)]]

\* mutant: each text is printed as soon as it is measured, before the next
\* template is expanded
PrintHelpContentWidth_Streaming(keys, tmpl, t, mw) ==
    LET width == MeasureWidth(t, mw)
        texts == MeasureTexts(keys, tmpl, width)
        content_width == UnifiedWidth(texts)
    IN [out |-> [i \in 1..Len(texts) |-> [texts[i] EXCEPT !.width = content_width]],
        events |-> <<Event("terminal_size", "", t)>>
                   \o [i \in 1..(2 * Len(texts)) |->
                          IF i % 2 = 1
                          THEN Event("expand", texts[(i + 1) \div 2].key, width)
                          ELSE Event("print", texts[i \div 2].key, content_width)]]

\* print_help_content_width
PrintHelpContentWidth(keys, tmpl, t, mw) ==
    LET width == MeasureWidth(t, mw)
        texts == MeasureTexts(keys, tmpl, width)
        content_width == UnifiedWidth(texts)
    IN [out |-> [i \in 1..Len(texts) |-> [texts[i] EXCEPT !.width = content_width]],
        events |-> <<Event("terminal_size", "", t)>>
                   \o [i \in 1..Len(texts) |-> Event("expand", texts[i].key, width)]
                   \o [i \in 1..Len(texts) |-> Event("print", texts[i].key, content_width)]]

\* print_template -> MadSkin::print_owning_expander_md: the skin is given
\* no width, so each call samples terminal_size() itself, expands the
\* template, lays it out at that width and prints it
PrintTemplate(key, template, t) ==
    [out |-> <<[key |-> key, template |-> template, width |-> t,
                cw |-> ContentWidth(Expand(template), t)]>>,
     events |-> <<Event("terminal_size", "", t), Event("expand", key, t),
                  Event("print", key, t)>>]

\* mutant: full-width mode unifies the widths as content-width mode does
PrintHelpFullWidth_Unified(keys, tmpl, t) == PrintHelpContentWidth(keys, tmpl, t, None)

RECURSIVE PrintHelpFullWidth(_, _, _)
\* for key in &self.template_keys { if let Some(template) = ... { print_template } }
PrintHelpFullWidth(keys, tmpl, t) ==
    IF keys = <<>> THEN Nothing
    ELSE LET rest == PrintHelpFullWidth(Tail(keys), tmpl, t)
             this == IF tmpl[Head(keys)] # NoTemplate
                     THEN PrintTemplate(Head(keys), tmpl[Head(keys)], t)
                     ELSE Nothing
         IN [out |-> this.out \o rest.out, events |-> this.events \o rest.events]

(***************************************************************************)
(* Printer: operations                                                     *)
(***************************************************************************)

\* an operation other than print_help writes nothing to standard output
Quiet == /\ printed' = FALSE
         /\ out' = <<>>
         /\ events' = <<>>

\* self.templates.insert(key, template)
SetTemplate(key, template) ==
    /\ templates' = [templates EXCEPT ![key] = template]
    /\ Quiet
    /\ UNCHANGED <<template_keys, full_width, max_width, term, keymuts>>

\* with: self.set_template(key, template); self
With(key, template) == SetTemplate(key, template)

\* mutant: removing a template also removes its key from the key list
Without_RemoveKey(key) ==
    /\ templates' = [templates EXCEPT ![key] = NoTemplate]
    /\ template_keys' = SelectSeq(template_keys, LAMBDA k : k # key)
    /\ Quiet
    /\ UNCHANGED <<full_width, max_width, term, keymuts>>

\* without: self.templates.remove(key)
Without(key) ==
    /\ templates' = [templates EXCEPT ![key] = NoTemplate]
    /\ Quiet
    /\ UNCHANGED <<template_keys, full_width, max_width, term, keymuts>>

\* with_max_width: self.max_width = Some(w)
WithMaxWidth(w) ==
    /\ max_width' = Some(w)
    /\ Quiet
    /\ UNCHANGED <<template_keys, templates, full_width, term, keymuts>>

\* pub full_width: the caller assigns the field
SetFullWidth(b) ==
    /\ full_width' = b
    /\ Quiet
    /\ UNCHANGED <<template_keys, templates, max_width, term, keymuts>>

\* template_keys_mut(): the caller's mutation of the key list
KeysMut(keys) ==
    /\ keymuts < MaxKeyMuts
    /\ keymuts' = keymuts + 1
    /\ template_keys' = keys
    /\ Quiet
    /\ UNCHANGED <<templates, full_width, max_width, term>>

KeysPush(key) == KeysMut(Append(template_keys, key))

KeysRemove(i) ==
    KeysMut(SubSeq(template_keys, 1, i - 1)
            \o SubSeq(template_keys, i + 1, Len(template_keys)))

KeysSwap(i) ==
    KeysMut([template_keys EXCEPT ![i] = template_keys[i + 1],
                                  ![i + 1] = template_keys[i]])

KeysAssign(keys) == KeysMut(keys)

\* the terminal is resized between two operations
Resize(w) ==
    /\ w # term
    /\ term' = w
    /\ Quiet
    /\ UNCHANGED <<template_keys, templates, full_width, max_width, keymuts>>

\* print_help: if self.full_width { print_help_full_width } else { print_help_content_width }
PrintHelp ==
    LET r == IF full_width
             THEN PrintHelpFullWidth(template_keys, templates, term)
             ELSE PrintHelpContentWidth(template_keys, templates, term, max_width)
    IN /\ printed' = TRUE
       /\ out' = r.out
       /\ events' = r.events
       /\ UNCHANGED <<template_keys, templates, full_width, max_width, term, keymuts>>

\* the preset and expander parts at rest
PresetIdle == name_in = <<>> /\ name_out = None
ExpanderIdle == cmd = <<>> /\ expander = None

\* Printer::new, under some terminal width
Init ==
    /\ template_keys = TEMPLATES
    /\ templates = DefaultTemplates
    /\ full_width = FALSE
    /\ max_width = None
    /\ term \in TermWidths
    /\ keymuts = 0
    /\ printed = FALSE
    /\ out = <<>>
    /\ events = <<>>
    /\ PresetIdle
    /\ ExpanderIdle

Next ==
    \/ \E k \in CallerKeys, t \in CallerTemplates : SetTemplate(k, t) /\ UNCHANGED <<preset_vars, expander_vars>>
    \/ \E k \in CallerKeys, t \in CallerTemplates : With(k, t) /\ UNCHANGED <<preset_vars, expander_vars>>
    \/ \E k \in CallerKeys : Without(k) /\ UNCHANGED <<preset_vars, expander_vars>>
    \/ \E w \in MaxWidths : WithMaxWidth(w) /\ UNCHANGED <<preset_vars, expander_vars>>
    \/ \E b \in BOOLEAN : SetFullWidth(b) /\ UNCHANGED <<preset_vars, expander_vars>>
    \/ \E k \in CallerKeys : KeysPush(k) /\ UNCHANGED <<preset_vars, expander_vars>>
    \/ \E i \in DOMAIN template_keys : KeysRemove(i) /\ UNCHANGED <<preset_vars, expander_vars>>
    \/ \E i \in 1..(Len(template_keys) - 1) : KeysSwap(i) /\ UNCHANGED <<preset_vars, expander_vars>>
    \/ \E l \in CallerKeyLists : KeysAssign(l) /\ UNCHANGED <<preset_vars, expander_vars>>
    \/ \E w \in TermWidths : Resize(w) /\ UNCHANGED <<preset_vars, expander_vars>>
    \/ PrintHelp /\ UNCHANGED <<preset_vars, expander_vars>>

Spec == Init /\ [][Next]_vars

(***************************************************************************)
(* Claims about rendering (checked under Spec)                             *)
(***************************************************************************)

HasTemplate(k) == templates[k] # NoTemplate
OutKeys == [i \in 1..Len(out) |-> out[i].key]
Count(seq, x) == Cardinality({i \in DOMAIN seq : seq[i] = x})
Queries == Cardinality({i \in DOMAIN events : events[i].ev = "terminal_size"})
OutNatural(i) == NaturalWidth(Expand(out[i].template))
\* the two-template scenario: natural content widths 20 and 60, 100 columns
Scenario2060 ==
    /\ printed /\ term = 100 /\ max_width = None /\ Len(out) = 2
    /\ OutNatural(1) = 20 /\ OutNatural(2) = 60

\* C1: in both modes print_help emits the blocks in the order of
\* template_keys filtered to the keys that have a mapping entry: a key with
\* no entry emits nothing, a key that occurs k times is emitted k times,
\* and each block is the expansion of the template mapped to its key.
C1_RenderOrder ==
    printed =>
        /\ OutKeys = SelectSeq(template_keys, HasTemplate)
        /\ \A i \in DOMAIN out : out[i].template = templates[out[i].key]
        /\ \A i \in DOMAIN template_keys :
              Count(OutKeys, template_keys[i]) =
                  IF HasTemplate(template_keys[i])
                  THEN Count(template_keys, template_keys[i]) ELSE 0

C1_Witness ==
    /\ printed /\ full_width
    /\ \E i \in DOMAIN template_keys : ~HasTemplate(template_keys[i])
    /\ \E i, j \in DOMAIN out : i + 1 < j /\ out[i].key = out[j].key

\* C2: a step that changes the key-to-template mapping leaves template_keys
\* as it is, and changes what print_help emits only for the key whose entry
\* changed: the other sections keep their relative order; and print_help
\* emits no block for a key that is in template_keys without an entry.
C2_MappingOnly ==
    /\ [][templates' # templates =>
            /\ template_keys' = template_keys
            /\ \E k \in DOMAIN templates :
                  /\ \A o \in DOMAIN templates \ {k} : templates'[o] = templates[o]
                  /\ SelectSeq(SelectSeq(template_keys', LAMBDA x : templates'[x] # NoTemplate),
                               LAMBDA x : x # k)
                     = SelectSeq(SelectSeq(template_keys, HasTemplate), LAMBDA x : x # k)]_vars
    /\ [](printed => \A i \in DOMAIN out : HasTemplate(out[i].key))

C2_Witness ==
    /\ printed
    /\ \E i \in DOMAIN template_keys : template_keys[i] = "examples"
    /\ ~HasTemplate("examples")
    /\ HasTemplate("introduction")
    /\ Len(out) > 0
    /\ \A i \in DOMAIN out : out[i].key # "examples"

\* C3: in content-width mode every block of one print_help call is rendered
\* at the same width, the maximum content width over the blocks of the call.
C3_UnifiedWidth ==
    (printed /\ ~full_width) =>
        \A i \in DOMAIN out :
            /\ \A j \in DOMAIN out : out[j].cw <= out[i].width
            /\ \E j \in DOMAIN out : out[j].cw = out[i].width

C3_Witness ==
    /\ Scenario2060 /\ ~full_width
    /\ out[1].width = 60 /\ out[2].width = 60

\* C4 as stated: in full-width mode two templates of natural content widths
\* 20 and 60 under a 100-column terminal are rendered at widths 20 and 60.
C4_Original ==
    (Scenario2060 /\ full_width) => (out[1].width = 20 /\ out[2].width = 60)

\* C4 as amended: in full-width mode there is no cross-block unification:
\* every block is laid out and rendered at the terminal width, whatever the
\* other blocks are, and its content width is that of its own text alone
\* (20 and 60 in the scenario, both rendered at width 100).
C4_FullWidthIndependent ==
    (printed /\ full_width) =>
        \A i \in DOMAIN out :
            /\ out[i].width = term
            /\ out[i].cw = ContentWidth(Expand(out[i].template), term)

C4_Witness ==
    /\ Scenario2060 /\ full_width
    /\ out[1].width = 100 /\ out[2].width = 100
    /\ out[1].cw = 20 /\ out[2].cw = 60

\* C5: in full-width mode with max_width = Some(m) every block is printed at
\* width min(terminal width, m).
C5_MaxWidthCapsFullWidth ==
    (printed /\ full_width /\ max_width # None) =>
        \A i \in DOMAIN out : out[i].width = Min(term, max_width[1])

\* C6 as stated: one print_help call makes at most one terminal-size query.
C6_Original == printed => Queries <= 1

\* C6 as amended: a print_help call in content-width mode makes exactly one
\* terminal-size query; in full-width mode it makes one query per printed
\* block; every query returns the terminal's width at the time of the call
\* (nothing is cached between calls).
C6_QueriesPerCall ==
    printed =>
        /\ ~full_width => Queries = 1
        /\ full_width => Queries = Len(out)
        /\ \A i \in DOMAIN events :
              events[i].ev = "terminal_size" => events[i].w = term

C6_Witness ==
    /\ printed /\ full_width /\ Len(out) >= 2 /\ Queries = Len(out)

\* C7: in content-width mode the unified width is at most the width the
\* blocks were measured at (min(terminal width, max_width) when max_width is
\* set, the terminal width otherwise) and at least every block's content width.
C7_UnifiedWidthBounds ==
    (printed /\ ~full_width) =>
        \A i \in DOMAIN out :
            /\ out[i].width <= (IF max_width = None THEN term
                                ELSE Min(term, max_width[1]))
            /\ out[i].cw <= out[i].width

C7_Witness ==
    /\ printed /\ ~full_width /\ term = 100 /\ max_width = Some(40)
    /\ \E i \in DOMAIN out : OutNatural(i) > 40 /\ out[i].width = 40

(***************************************************************************)
(* StylePreset                                                             *)
(***************************************************************************)

\* enum StylePreset
StylePreset ==
    {"CatppuccinLatte", "CatppuccinFrappe", "CatppuccinMacchiato",
     "CatppuccinMocha", "RosePineMain", "RosePineMoon",
     "RosePineDawn", "KanagawaWave", "KanagawaDragon",
     "KanagawaLotus"}

\* StylePreset::all_names
AllNames ==
    <<<<"c", "a", "t", "p", "p", "u", "c", "c", "i", "n", "-", "l", "a", "t", "t", "e">>,
      <<"c", "a", "t", "p", "p", "u", "c", "c", "i", "n", "-", "f", "r", "a", "p", "p", "e">>,
      <<"c", "a", "t", "p", "p", "u", "c", "c", "i", "n", "-", "m", "a", "c", "c", "h", "i", "a", "t", "o">>,
      <<"c", "a", "t", "p", "p", "u", "c", "c", "i", "n", "-", "m", "o", "c", "h", "a">>,
      <<"r", "o", "s", "e", "-", "p", "i", "n", "e", "-", "m", "a", "i", "n">>,
      <<"r", "o", "s", "e", "-", "p", "i", "n", "e", "-", "m", "o", "o", "n">>,
      <<"r", "o", "s", "e", "-", "p", "i", "n", "e", "-", "d", "a", "w", "n">>,
      <<"k", "a", "n", "a", "g", "a", "w", "a", "-", "w", "a", "v", "e">>,
      <<"k", "a", "n", "a", "g", "a", "w", "a", "-", "d", "r", "a", "g", "o", "n">>,
      <<"k", "a", "n", "a", "g", "a", "w", "a", "-", "l", "o", "t", "u", "s">>>>

UpperLetters == <<"A", "B", "C", "D", "E", "F", "G", "H", "I", "J", "K", "L", "M", "N", "O", "P", "Q", "R", "S", "T", "U", "V", "W", "X", "Y", "Z">>
LowerLetters == <<"a", "b", "c", "d", "e", "f", "g", "h", "i", "j", "k", "l", "m", "n", "o", "p", "q", "r", "s", "t", "u", "v", "w", "x", "y", "z">>

\* char::to_lowercase: the ASCII letters, and the Kelvin sign (U+212A, the
\* character named KELVIN), whose lowercase is the letter k
LowerChar(c) ==
    IF \E i \in DOMAIN UpperLetters : UpperLetters[i] = c
    THEN LowerLetters[CHOOSE i \in DOMAIN UpperLetters : UpperLetters[i] = c]
    ELSE IF c = "KELVIN" THEN "k" ELSE c

\* mutant: the name is matched as given, without lowercasing
ToLowercase_AsGiven(s) == s

\* str::to_lowercase
ToLowercase(s) == [i \in DOMAIN s |-> LowerChar(s[i])]

\* StylePreset::from_name
FromName(name) ==
    LET l == ToLowercase(name) IN
    CASE l = <<"c", "a", "t", "p", "p", "u", "c", "c", "i", "n", "-", "l", "a", "t", "t", "e">> -> Some("CatppuccinLatte")
      [] l = <<"c", "a", "t", "p", "p", "u", "c", "c", "i", "n", "-", "f", "r", "a", "p", "p", "e">> -> Some("CatppuccinFrappe")
      [] l = <<"c", "a", "t", "p", "p", "u", "c", "c", "i", "n", "-", "m", "a", "c", "c", "h", "i", "a", "t", "o">> -> Some("CatppuccinMacchiato")
      [] l = <<"c", "a", "t", "p", "p", "u", "c", "c", "i", "n", "-", "m", "o", "c", "h", "a">> -> Some("CatppuccinMocha")
      [] l = <<"r", "o", "s", "e", "-", "p", "i", "n", "e", "-", "m", "a", "i", "n">> -> Some("RosePineMain")
      [] l = <<"r", "o", "s", "e", "-", "p", "i", "n", "e", "-", "m", "o", "o", "n">> -> Some("RosePineMoon")
      [] l = <<"r", "o", "s", "e", "-", "p", "i", "n", "e", "-", "d", "a", "w", "n">> -> Some("RosePineDawn")
      [] l = <<"k", "a", "n", "a", "g", "a", "w", "a", "-", "w", "a", "v", "e">> -> Some("KanagawaWave")
      [] l = <<"k", "a", "n", "a", "g", "a", "w", "a", "-", "d", "r", "a", "g", "o", "n">> -> Some("KanagawaDragon")
      [] l = <<"k", "a", "n", "a", "g", "a", "w", "a", "-", "l", "o", "t", "u", "s">> -> Some("KanagawaLotus")
      [] OTHER -> None

\* StylePreset::name
Name(p) ==
    CASE p = "CatppuccinLatte" -> <<"c", "a", "t", "p", "p", "u", "c", "c", "i", "n", "-", "l", "a", "t", "t", "e">>
      [] p = "CatppuccinFrappe" -> <<"c", "a", "t", "p", "p", "u", "c", "c", "i", "n", "-", "f", "r", "a", "p", "p", "e">>
      [] p = "CatppuccinMacchiato" -> <<"c", "a", "t", "p", "p", "u", "c", "c", "i", "n", "-", "m", "a", "c", "c", "h", "i", "a", "t", "o">>
      [] p = "CatppuccinMocha" -> <<"c", "a", "t", "p", "p", "u", "c", "c", "i", "n", "-", "m", "o", "c", "h", "a">>
      [] p = "RosePineMain" -> <<"r", "o", "s", "e", "-", "p", "i", "n", "e", "-", "m", "a", "i", "n">>
      [] p = "RosePineMoon" -> <<"r", "o", "s", "e", "-", "p", "i", "n", "e", "-", "m", "o", "o", "n">>
      [] p = "RosePineDawn" -> <<"r", "o", "s", "e", "-", "p", "i", "n", "e", "-", "d", "a", "w", "n">>
      [] p = "KanagawaWave" -> <<"k", "a", "n", "a", "g", "a", "w", "a", "-", "w", "a", "v", "e">>
      [] p = "KanagawaDragon" -> <<"k", "a", "n", "a", "g", "a", "w", "a", "-", "d", "r", "a", "g", "o", "n">>
      [] p = "KanagawaLotus" -> <<"k", "a", "n", "a", "g", "a", "w", "a", "-", "l", "o", "t", "u", "s">>


\* at most MaxCaseFlips characters of a name given to from_name are
\* uppercased one by one (or all of them are)
MaxCaseFlips == 1

UpperAscii(c) ==
    IF \E i \in DOMAIN LowerLetters : LowerLetters[i] = c
    THEN UpperLetters[CHOOSE i \in DOMAIN LowerLetters : LowerLetters[i] = c]
    ELSE c

\* the name n with the characters at the positions f uppercased; with
\* kelvin, an uppercased k is the Kelvin sign
Variant(n, f, kelvin) ==
    [i \in DOMAIN n |->
        IF i \in f
        THEN (IF kelvin /\ n[i] = "k" THEN "KELVIN" ELSE UpperAscii(n[i]))
        ELSE n[i]]

\* strings that are no preset name: a name cut short, padded with a space,
\* written with underscores or without hyphens, its last word alone
NearMisses(n) ==
    {SubSeq(n, 1, Len(n) - 1), Append(n, " "), <<" ">> \o n,
     [i \in DOMAIN n |-> IF n[i] = "-" THEN "_" ELSE n[i]],
     SelectSeq(n, LAMBDA c : c # "-"),
     SubSeq(n, 1 + CHOOSE i \in DOMAIN n :
                      n[i] = "-" /\ \A j \in DOMAIN n : j > i => n[j] # "-",
            Len(n))}

\* the arguments given to from_name
NameInputs ==
    UNION {{Variant(AllNames[a], f, kv) :
               f \in {g \in SUBSET DOMAIN AllNames[a] : Cardinality(g) <= MaxCaseFlips}
                     \cup {DOMAIN AllNames[a]},
               kv \in BOOLEAN}
           \cup NearMisses(AllNames[a]) : a \in DOMAIN AllNames}
    \cup {<<>>}

\* a call of StylePreset::from_name
FromNameCall(s) ==
    /\ name_in' = s
    /\ name_out' = FromName(s)

\* the printer as Printer::new leaves it, under a 100-column terminal
PrinterIdle ==
    /\ template_keys = TEMPLATES
    /\ templates = DefaultTemplates
    /\ full_width = FALSE
    /\ max_width = None
    /\ term = 100
    /\ keymuts = 0
    /\ printed = FALSE
    /\ out = <<>>
    /\ events = <<>>

InitPreset == PrinterIdle /\ PresetIdle /\ ExpanderIdle

\* from_name is a pure function: each behaviour makes one call
NextPreset ==
    /\ PresetIdle
    /\ \E s \in NameInputs : FromNameCall(s) /\ UNCHANGED <<printer_vars, expander_vars>>

SpecPreset == InitPreset /\ [][NextPreset]_vars

(***************************************************************************)
(* Claims about the presets (checked under SpecPreset)                     *)
(***************************************************************************)

\* the uppercase forms of a character: the letter k has two, K and the
\* Kelvin sign
UpperForms(c) ==
    {UpperLetters[i] : i \in {j \in DOMAIN LowerLetters : LowerLetters[j] = c}}
    \cup (IF c = "k" THEN {"KELVIN"} ELSE {})

IsCaseVariant(s, n) ==
    /\ Len(s) = Len(n)
    /\ \A i \in DOMAIN n : s[i] = n[i] \/ s[i] \in UpperForms(n[i])

\* C8: from_name is the exact, case-insensitive inverse of name: for each of
\* the ten presets p, from_name of p.name() and of any case variant of it is
\* Some(p); every identifier of all_names() resolves to a preset whose name()
\* is that identifier; and from_name of a string whose lowercase form is
\* none of the ten identifiers is None.
C8_PresetLookup ==
    /\ Cardinality(StylePreset) = Len(AllNames)
    /\ {Name(p) : p \in StylePreset} = {AllNames[i] : i \in DOMAIN AllNames}
    /\ \A p \in StylePreset :
          (name_in = Name(p) \/ IsCaseVariant(name_in, Name(p))) => name_out = Some(p)
    /\ \A i \in DOMAIN AllNames :
          name_in = AllNames[i] => (name_out # None /\ Name(name_out[1]) = AllNames[i])
    /\ (\A i \in DOMAIN AllNames : ToLowercase(name_in) # AllNames[i]) => name_out = None

C8_Witness ==
    /\ name_in # <<>>
    /\ name_in[1] = "KELVIN"
    /\ IsCaseVariant(name_in, Name("KanagawaWave"))
    /\ name_out = Some("KanagawaWave")

(***************************************************************************)
(* Printer::make_expander: the variable model of a command                 *)
(***************************************************************************)

\* clap::ArgAction, and ArgAction::takes_values
ArgAction == {"Set", "Append", "SetTrue", "Count"}
TakesValues(action) == action \in {"Set", "Append"}

\* a clap::Arg, as make_expander reads it (after Command::build)
Arg(short, long, hide, help, action, value_names, env, possible_values, default_values, required, last) ==
    [short |-> short, long |-> long, hide |-> hide, help |-> help,
     action |-> action, value_names |-> value_names, env |-> env,
     possible_values |-> possible_values, default_values |-> default_values,
     required |-> required, last |-> last]

\* the texts the arguments of the commands are made of
Text_longname == <<"l", "o", "n", "g", "n", "a", "m", "e">>
Text_FILE == <<"F", "I", "L", "E">>
Text_help == <<"h", "e", "l", "p">>

\* the arguments with a flag: every combination of flags, actions and
\* default values (a Set argument with and without a value name), some of
\* them hidden, some with possible values and an environment variable
FlagPairs ==
    {<<Some("x"), Some(Text_longname)>>, <<None, Some(Text_longname)>>, <<Some("x"), None>>}

OptionArgs ==
    {Arg(f[1], f[2], FALSE, Some(Text_help), av[1], av[2], None, <<>>, d, FALSE, FALSE) :
        f \in FlagPairs,
        av \in {<<"Set", <<Text_FILE>>>>, <<"Set", <<>>>>, <<"Append", <<Text_FILE>>>>,
                <<"SetTrue", <<>>>>, <<"Count", <<>>>>},
        d \in {<<>>, <<<<"d">>, <<"e">>>>}}
    \cup
    {Arg(f[1], f[2], TRUE, None, "Set", <<Text_FILE>>, None, <<>>, <<<<"d">>>>, FALSE, FALSE) :
        f \in FlagPairs}
    \cup
    {Arg(Some("x"), None, FALSE, None, "Set", <<Text_FILE>>, e, <<<<"a">>, <<"b">>, <<"c">>>>,
         <<>>, FALSE, FALSE) : e \in {None, Some(<<"E">>)}}

\* the arguments with no flag: the positionals
PositionalArgs ==
    {Arg(None, None, FALSE, IF v = <<>> THEN None ELSE Some(Text_help), "Set", v, None,
         <<>>, <<>>, r, l) :
        v \in {<<>>, <<Text_FILE>>}, r \in BOOLEAN, l \in BOOLEAN}
    \cup
    {Arg(None, None, TRUE, None, "Set", <<Text_FILE>>, None, <<>>, <<>>, TRUE, FALSE)}

ArgPool == OptionArgs \cup PositionalArgs

\* a command has at most MaxArgs arguments
MaxArgs == 2

Commands == UNION {[1..n -> ArgPool] : n \in 0..MaxArgs}

\* the variables make_expander sets in a sub-expander
SubVars ==
    {"flags-compact", "short", "long", "help", "value", "value-braced",
     "value-short-braced", "value-short", "value-long-braced", "value-long",
     "details-env", "possible_values", "details-possible-values", "default",
     "details-default", "key"}

\* expander.sub(..): a new sub-expander, no variable set
NewSub == [v \in SubVars |-> None]

\* OwningTemplateExpander::set and set_md
Set(sub, var, text) == [sub EXCEPT ![var] = Some([text |-> text, md |-> FALSE])]
SetMd(sub, var, text) == [sub EXCEPT ![var] = Some([text |-> text, md |-> TRUE])]

RECURSIVE Join(_, _)
\* values.join(sep)
Join(values, sep) ==
    IF values = <<>> THEN <<>>
    ELSE IF Len(values) = 1 THEN values[1]
    ELSE values[1] \o sep \o Join(Tail(values), sep)

\* .map(|v| format!("`{}`", v.get_name()))
Quoted(values) == [i \in DOMAIN values |-> <<"BT">> \o values[i] \o <<"BT">>]

\* mutant: an argument with only a long flag gets no padding
FlagsCompact_NoPadding(short_flag, long_flag) ==
    IF short_flag # None /\ long_flag # None
    THEN <<"-", short_flag[1]>> \o <<",", " ", "-", "-">> \o long_flag[1]
    ELSE IF long_flag # None THEN <<"-", "-">> \o long_flag[1]
    ELSE IF short_flag # None THEN <<"-", short_flag[1]>>
    ELSE <<>>

\* let flags_compact = match (short_flag, long_flag) { .. }
FlagsCompact(short_flag, long_flag) ==
    IF short_flag # None /\ long_flag # None
    THEN <<"-", short_flag[1]>> \o <<",", " ", "-", "-">> \o long_flag[1]
    ELSE IF long_flag # None THEN <<" ", " ", " ", " ", "-", "-">> \o long_flag[1]
    ELSE IF short_flag # None THEN <<"-", short_flag[1]>>
    ELSE <<>>

\* sub.set("flags-compact", ..); sub.set("short", ..); sub.set("long", ..); help
SetFlags(sub, arg) ==
    LET s1 == Set(sub, "flags-compact", FlagsCompact(arg.short, arg.long))
        s2 == IF arg.short # None THEN Set(s1, "short", <<"-", arg.short[1]>>) ELSE s1
        s3 == IF arg.long # None THEN Set(s2, "long", <<"-", "-">> \o arg.long[1]) ELSE s2
    IN IF arg.help # None THEN SetMd(s3, "help", arg.help[1]) ELSE s3

\* if arg.get_action().takes_values() { if let Some(name) = value_names.first() { .. } }
SetValue(sub, arg) ==
    IF TakesValues(arg.action) /\ arg.value_names # <<>>
    THEN LET name == arg.value_names[1]
             braced == <<"<">> \o name \o <<">">>
             s1 == Set(Set(sub, "value", name), "value-braced", braced)
             s2 == IF arg.short # None
                   THEN Set(Set(s1, "value-short-braced", braced), "value-short", name)
                   ELSE s1
         IN IF arg.long # None
            THEN Set(Set(s2, "value-long-braced", braced), "value-long", name)
            ELSE s2
    ELSE sub

\* if let Some(env_var) = arg.get_env() { .. }
SetEnv(sub, arg) ==
    IF arg.env # None
    THEN SetMd(sub, "details-env", <<"\n", " ", " ", " ", " ", "*", " ", "*", "E", "n", "v", "i", "r", "o", "n", "m", "e", "n", "t", "*", ":", " ", "BT">> \o arg.env[1] \o <<"BT">>)
    ELSE sub

\* if !possible_values.is_empty() { .. }
SetPossibleValues(sub, arg) ==
    IF arg.possible_values # <<>>
    THEN LET values == Quoted(arg.possible_values) IN
         SetMd(SetMd(sub, "possible_values",
                     <<" ", "P", "o", "s", "s", "i", "b", "l", "e", " ", "v", "a", "l", "u", "e", "s", ":", " ", "[">> \o Join(values, <<",", " ">>) \o <<"]">>),
               "details-possible-values",
               <<"\n", " ", " ", " ", " ", "*", " ", "*", "P", "o", "s", "s", "i", "b", "l", "e", " ", "v", "a", "l", "u", "e", "s", "*", ":", " ">> \o Join(values, <<",", " ">>))
    ELSE sub

\* mutant: the default is shown whatever the action of the argument is
SetDefault_AnyAction(sub, arg) ==
    IF arg.default_values # <<>>
    THEN LET default_str == arg.default_values[1] IN
         SetMd(SetMd(sub, "default", <<" ", "D", "e", "f", "a", "u", "l", "t", ":", " ", "BT">> \o default_str \o <<"BT">>),
               "details-default", <<"\n", " ", " ", " ", " ", "*", " ", "*", "D", "e", "f", "a", "u", "l", "t", "*", ":", " ", "BT">> \o default_str \o <<"BT">>)
    ELSE sub

\* if let Some(default) = arg.get_default_values().first() {
\*     if matches!(arg.get_action(), ArgAction::Set | ArgAction::Append) { .. } }
SetDefault(sub, arg) ==
    IF arg.default_values # <<>> /\ arg.action \in {"Set", "Append"}
    THEN LET default_str == arg.default_values[1] IN
         SetMd(SetMd(sub, "default", <<" ", "D", "e", "f", "a", "u", "l", "t", ":", " ", "BT">> \o default_str \o <<"BT">>),
               "details-default", <<"\n", " ", " ", " ", " ", "*", " ", "*", "D", "e", "f", "a", "u", "l", "t", "*", ":", " ", "BT">> \o default_str \o <<"BT">>)
    ELSE sub

\* the body of `for arg in options`: one "option-lines" sub-expander
OptionLine(arg) ==
    SetDefault(SetPossibleValues(SetEnv(SetValue(SetFlags(NewSub, arg), arg), arg), arg), arg)

\* mutant: hidden arguments are not filtered out
IsOption_ShowHidden(arg) == arg.short # None \/ arg.long # None

\* .filter(|a| !a.is_hide_set()).filter(|a| a.get_short().is_some() || a.get_long().is_some())
IsOption(arg) == ~arg.hide /\ (arg.short # None \/ arg.long # None)

\* cmd.get_positionals(): the arguments with neither a short nor a long flag
IsPositional(arg) == arg.short = None /\ arg.long = None

\* mutant: a positional without a value name is not skipped, it adds its space
\* and brackets
PositionalUsage_NoSkip(arg) ==
    <<" ">>
    \o (IF ~arg.required THEN <<"[">> ELSE <<>>)
    \o (IF arg.last THEN <<"-", "-", " ">> ELSE <<>>)
    \o (IF arg.value_names = <<>> THEN <<>> ELSE arg.value_names[1])
    \o (IF ~arg.required THEN <<"]">> ELSE <<>>)

\* the body of `for arg in cmd.get_positionals()`: what it appends to args
PositionalUsage(arg) ==
    IF arg.value_names = <<>> THEN <<>>
    ELSE <<" ">>
         \o (IF ~arg.required THEN <<"[">> ELSE <<>>)
         \o (IF arg.last THEN <<"-", "-", " ">> ELSE <<>>)
         \o arg.value_names[1]
         \o (IF ~arg.required THEN <<"]">> ELSE <<>>)

\* the body of `for arg in cmd.get_positionals()`: its "positional-lines" sub-expander
PositionalLine(arg) ==
    LET s1 == Set(NewSub, "key", arg.value_names[1])
    IN IF arg.help # None THEN Set(s1, "help", arg.help[1]) ELSE s1

RECURSIVE PositionalArgsText(_)
\* let mut args = String::new(); for arg in cmd.get_positionals() { .. }
PositionalArgsText(args) ==
    IF args = <<>> THEN <<>>
    ELSE (IF IsPositional(args[1]) THEN PositionalUsage(args[1]) ELSE <<>>)
         \o PositionalArgsText(Tail(args))

\* the arguments the two loops of make_expander go through
Options(args) == SelectSeq(args, IsOption)
NamedPositionals(args) ==
    SelectSeq(args, LAMBDA a : IsPositional(a) /\ a.value_names # <<>>)

\* make_expander: the groups and the usage fragment built from the arguments
MakeExpander(args) ==
    [g \in {"option-lines", "positional-lines", "positional-args"} |->
        CASE g = "option-lines" ->
                 [i \in DOMAIN Options(args) |-> OptionLine(Options(args)[i])]
          [] g = "positional-lines" ->
                 [i \in DOMAIN NamedPositionals(args) |->
                     PositionalLine(NamedPositionals(args)[i])]
          [] g = "positional-args" -> PositionalArgsText(args)]

\* Printer::new(cmd): let expander = Self::make_expander(&cmd)
New(c) ==
    /\ cmd' = c
    /\ expander' = Some(MakeExpander(c))

InitExpander == PrinterIdle /\ PresetIdle /\ ExpanderIdle

\* make_expander is a pure function of the command: each behaviour builds one
NextExpander ==
    /\ ExpanderIdle
    /\ \E c \in Commands : New(c) /\ UNCHANGED <<printer_vars, preset_vars>>

SpecExpander == InitExpander /\ [][NextExpander]_vars

(***************************************************************************)
(* Claims about the variable model (checked under SpecExpander)            *)
(***************************************************************************)

OptionLines == expander[1]["option-lines"]
TextOf(sub, var) == sub[var][1].text

\* C9: the flags-compact of an argument's option line is "-x, --longname"
\* when the argument has short x and long longname, "    --longname" (four
\* leading spaces) when it has only the long flag and "-x" when it has only
\* the short flag; for an argument with neither flag it is "".
C9_FlagsCompact ==
    expander # None =>
        /\ Len(OptionLines) = Len(Options(cmd))
        /\ \A i \in DOMAIN Options(cmd) :
              LET arg == Options(cmd)[i]
                  sub == OptionLines[i]
              IN /\ sub["flags-compact"] # None
                 /\ (arg.short = Some("x") /\ arg.long = Some(Text_longname))
                        => TextOf(sub, "flags-compact") = <<"-", "x", ",", " ", "-", "-", "l", "o", "n", "g", "n", "a", "m", "e">>
                 /\ (arg.short = None /\ arg.long = Some(Text_longname))
                        => TextOf(sub, "flags-compact") = <<" ", " ", " ", " ", "-", "-", "l", "o", "n", "g", "n", "a", "m", "e">>
                 /\ (arg.short = Some("x") /\ arg.long = None)
                        => TextOf(sub, "flags-compact") = <<"-", "x">>
        /\ \A j \in DOMAIN cmd :
              (cmd[j].short = None /\ cmd[j].long = None)
                  => FlagsCompact(cmd[j].short, cmd[j].long) = <<>>

C9_Witness ==
    /\ expander # None
    /\ Len(cmd) = 2
    /\ cmd[1].short = None /\ cmd[1].long = None
    /\ cmd[2].short = None /\ cmd[2].long # None /\ ~cmd[2].hide
    /\ Len(OptionLines) = 1
    /\ TextOf(OptionLines[1], "flags-compact") = <<" ", " ", " ", " ", "-", "-", "l", "o", "n", "g", "n", "a", "m", "e">>

\* C10: for an option with a non-empty default value list, default and
\* details-default are both set, back-tick-quoting the text of the default,
\* when the action is Set or Append, and neither is set for any other
\* action; with an empty default list neither is set.
C10_DefaultShown ==
    expander # None =>
        \A i \in DOMAIN Options(cmd) :
            LET arg == Options(cmd)[i]
                sub == OptionLines[i]
            IN IF arg.default_values # <<>> /\ arg.action \in {"Set", "Append"}
               THEN /\ arg.default_values[1] = <<"d">>
                    /\ sub["default"] = Some([text |-> <<" ", "D", "e", "f", "a", "u", "l", "t", ":", " ", "BT", "d", "BT">>, md |-> TRUE])
                    /\ sub["details-default"]
                           = Some([text |-> <<"\n", " ", " ", " ", " ", "*", " ", "*", "D", "e", "f", "a", "u", "l", "t", "*", ":", " ", "BT", "d", "BT">>, md |-> TRUE])
               ELSE sub["default"] = None /\ sub["details-default"] = None

C10_Witness ==
    /\ expander # None
    /\ Len(cmd) = 2 /\ Len(OptionLines) = 2
    /\ cmd[1].action = "SetTrue" /\ cmd[1].default_values # <<>>
    /\ OptionLines[1]["default"] = None /\ OptionLines[1]["details-default"] = None
    /\ cmd[2].action = "Append" /\ cmd[2].default_values # <<>>
    /\ OptionLines[2]["default"] # None /\ OptionLines[2]["details-default"] # None

PositionalLines == expander[1]["positional-lines"]
UsageFragment == expander[1]["positional-args"]

\* the positions in cmd of the positionals (neither flag) that have a value name
NamedAt ==
    SelectSeq([j \in DOMAIN cmd |-> j],
              LAMBDA j : cmd[j].short = None /\ cmd[j].long = None
                         /\ cmd[j].value_names # <<>>)

\* what a positional named FILE contributes to the usage fragment
FileFragment(required, last) ==
    CASE required /\ ~last -> <<" ", "F", "I", "L", "E">>
      [] ~required /\ ~last -> <<" ", "[", "F", "I", "L", "E", "]">>
      [] required /\ last -> <<" ", "-", "-", " ", "F", "I", "L", "E">>
      [] ~required /\ last -> <<" ", "[", "-", "-", " ", "F", "I", "L", "E", "]">>

RECURSIVE Fragments(_)
Fragments(at) ==
    IF at = <<>> THEN <<>>
    ELSE FileFragment(cmd[at[1]].required, cmd[at[1]].last) \o Fragments(Tail(at))

\* C11: a positional without a value name adds nothing to positional-args
\* and has no positional-lines entry; each positional with value name N
\* appends, in order, a space, "[" if not required, "-- " if it is the last
\* positional, N, and "]" if not required (a non-required FILE adds
\* " [FILE]") and has exactly one positional-lines entry with key = N; there
\* are as many positional-lines entries as positionals with a value name.
C11_Positionals ==
    expander # None =>
        /\ \A i \in DOMAIN NamedAt : cmd[NamedAt[i]].value_names[1] = Text_FILE
        /\ UsageFragment = Fragments(NamedAt)
        /\ Len(PositionalLines) = Len(NamedAt)
        /\ \A i \in DOMAIN NamedAt :
              PositionalLines[i]["key"] = Some([text |-> <<"F", "I", "L", "E">>, md |-> FALSE])

C11_Witness ==
    /\ expander # None
    /\ Len(cmd) = 2
    /\ cmd[1].short = None /\ cmd[1].long = None /\ cmd[1].value_names = <<>>
    /\ cmd[2].short = None /\ cmd[2].long = None /\ cmd[2].value_names # <<>>
    /\ ~cmd[2].required /\ ~cmd[2].last
    /\ UsageFragment = <<" ", "[", "F", "I", "L", "E", "]">>
    /\ Len(PositionalLines) = 1

(***************************************************************************)
(* Claims about the order of the steps of one print_help call (Spec)       *)
(***************************************************************************)

Expansions == {i \in DOMAIN events : events[i].ev = "expand"}
Prints == {i \in DOMAIN events : events[i].ev = "print"}

\* C12: in content-width mode no block is written to standard output until
\* every template with a mapping entry has been expanded and measured (and
\* the unified width, which every print uses, is known); in full-width mode
\* each block is printed right after its own expansion, before the next
\* template is expanded.
C12_TwoPhase ==
    printed =>
        /\ Cardinality(Expansions) = Len(out)
        /\ Cardinality(Prints) = Len(out)
        /\ ~full_width =>
              /\ \A e \in Expansions, p \in Prints : e < p
              /\ \A p \in Prints :
                    \A i \in DOMAIN out : out[i].cw <= events[p].w
        /\ full_width =>
              \A e \in Expansions :
                  /\ e + 1 \in Prints
                  /\ events[e + 1].key = events[e].key

C12_Witness ==
    /\ printed /\ ~full_width /\ Len(out) >= 2
    /\ Len(events) = 1 + 2 * Len(out)
    /\ events[Len(out) + 1].ev = "expand"
    /\ events[Len(out) + 2].ev = "print"

C12_WitnessFullWidth ==
    /\ printed /\ full_width /\ Len(out) >= 2
    /\ events[2].ev = "expand" /\ events[3].ev = "print" /\ events[5].ev = "expand"

(***************************************************************************)
(* Claims about the option-lines group (SpecExpander)                      *)
(***************************************************************************)

\* the positions in cmd of the arguments that are not hidden and have a
\* short or a long flag
ShownAt ==
    SelectSeq([j \in DOMAIN cmd |-> j],
              LAMBDA j : ~cmd[j].hide /\ (cmd[j].short # None \/ cmd[j].long # None))

\* C13: option-lines holds exactly one sub-environment per argument that is
\* not hidden and has a short or a long flag, in the order of the command's
\* arguments; hidden arguments and arguments with neither flag have no
\* entry, so a command with no such argument has zero option-lines entries.
C13_OptionLines ==
    expander # None =>
        /\ Len(OptionLines) = Len(ShownAt)
        /\ \A i \in DOMAIN ShownAt : OptionLines[i] = OptionLine(cmd[ShownAt[i]])
        /\ (\A j \in DOMAIN cmd : cmd[j].hide \/ (cmd[j].short = None /\ cmd[j].long = None))
              => OptionLines = <<>>

C13_Witness ==
    /\ expander # None
    /\ Len(cmd) = 2
    /\ cmd[1].hide /\ cmd[1].short # None
    /\ cmd[2].short = None /\ cmd[2].long = None
    /\ OptionLines = <<>>

C13_WitnessOrder ==
    /\ expander # None
    /\ Len(cmd) = 2 /\ Len(OptionLines) = 2
    /\ OptionLines[1] # OptionLines[2]

=============================================================================
